---------------------------- MODULE Spec2Model ----------------------------
(***************************************************************************)
(* emit_thesis_spans (swarmsh_demo_workspace/initial/spans.rs): a flat     *)
(* function that, against a tracer handed in by the caller, builds five    *)
(* spans with one "brief" attribute each, starts each and ends it at once. *)
(*                                                                         *)
(* The tracer is the environment's recording capability.  It is modelled   *)
(* as an append-only store of span records per tracer; a caller may hand   *)
(* in any tracer, whatever that tracer recorded before.                    *)
(***************************************************************************)
EXTENDS Naturals, Sequences, FiniteSets

(* ------------------------------ bounds -------------------------------- *)

\* Number of distinct tracers a caller can hand in.
NumTracers == 2

\* Longest store a tracer holds before the first invocation.
MaxPrior == 1

\* Number of invocations of emit_thesis_spans in one behaviour.
MaxCalls == 2

(* ------------------------- literals of the code ----------------------- *)

NAME_telemetry_as_system == "swarmsh.thesis.telemetry_as_system"

\* Variant: the second name loses its "swarmsh." prefix.
NAME_span_drives_code_unprefixed == "thesis.span_drives_code"

NAME_span_drives_code == "swarmsh.thesis.span_drives_code"
NAME_trace_to_prompt_emergence == "swarmsh.thesis.trace_to_prompt_emergence"
NAME_telemetry_communication_channel == "swarmsh.thesis.telemetry_communication_channel"

\* Variant: the fifth name repeats the first.
NAME_telemetry_as_system_repeated == "swarmsh.thesis.telemetry_as_system"

NAME_system_models_itself == "swarmsh.thesis.system_models_itself"

BRIEF_telemetry_as_system == "Telemetry is the system, not an add-on."
BRIEF_span_drives_code == "Spans generate code & CLI."

\* Variant: the arrow of the third brief degraded to ASCII.
BRIEF_trace_to_prompt_emergence_ascii == "Traces -> LLM prompts (emergent)."

BRIEF_trace_to_prompt_emergence == "Traces → LLM prompts (emergent)."
BRIEF_telemetry_communication_channel == "Spans are the agent messaging bus."
BRIEF_system_models_itself == "Trace graph is a live self-model."

\* The attribute key every KeyValue::new call of the function uses.
BRIEF_KEY == "brief"

(* --------------------------- tracer capability ------------------------ *)

\* KeyValue::new(key, value)
KeyValue(key, value) == [key |-> key, value |-> value]

\* tracer.span_builder(name): a builder with the name and no attributes.
SpanBuilder(name) == [name |-> name, attributes |-> <<>>]

\* builder.with_attributes(vec![...]): the builder with its attributes set.
WithAttributes(builder, attrs) == [builder EXCEPT !.attributes = attrs]

\* The record a tracer keeps for a span started from a builder: open, and
\* end() not yet called on it.
StartedSpan(builder) ==
    [name |-> builder.name, attributes |-> builder.attributes,
     ended |-> FALSE, endCalls |-> 0]

\* builder.start(tracer): the tracer's store with the new span appended; the
\* handle returned to the caller is the new span's index, Len of the result.
Start(store, builder) == Append(store, StartedSpan(builder))

\* span.end(): the span of the handle is closed; the call is counted.
End(store, handle) ==
    [store EXCEPT ![handle] = [@ EXCEPT !.ended = TRUE,
                                        !.endCalls = @ + 1]]

\* What the tracer is asked to do: one request per start and per end call.
Request(action, span) ==
    [action |-> action, name |-> span.name, attributes |-> span.attributes]

(* ------------------------------- state -------------------------------- *)

VARIABLES
    pc,        \* 0: not entered; 1..10: the next statement; 11: at the
               \* closing brace; 12: returned
    tracer,    \* the tracer argument of the current invocation (0: none yet)
    spans,     \* spans[t]: the store of tracer t, a sequence of span records
    locals,    \* locals[k]: the handle bound to the k-th let (0: unbound)
    base,      \* Len(spans[tracer]) when the current invocation was entered
    requests,  \* the requests the current invocation has issued, in order
    prev,      \* the requests of the invocation before the current one
    calls,     \* the number of invocations entered so far
    ret        \* "none": never called; "pending": in the call; "unit": the
               \* call returned its only value, ()

vars == <<pc, tracer, spans, locals, base, requests, prev, calls, ret>>

Tracers == 1..NumTracers

\* Position of the closing brace, after the tenth statement.
Brace == 11

\* Position after the function has returned.
Done == 12

\* The name spans recorded before the first invocation carry: one of the
\* function's own names, so that a tracer may already hold a span, open or
\* ended, that an invocation is about to start again.
PriorNames == {NAME_telemetry_as_system}

PriorSpans ==
    { [name |-> n, attributes |-> <<KeyValue(BRIEF_KEY, "prior")>>,
       ended |-> e, endCalls |-> IF e THEN 1 ELSE 0] :
        n \in PriorNames, e \in BOOLEAN }

RECURSIVE SeqsUpTo(_, _)
SeqsUpTo(S, n) ==
    IF n = 0 THEN {<<>>}
    ELSE LET shorter == SeqsUpTo(S, n - 1)
         IN  shorter \cup { Append(s, x) : s \in shorter, x \in S }

PriorStores == SeqsUpTo(PriorSpans, MaxPrior)

NoLocals == [k \in 1..5 |-> 0]

Init ==
    /\ pc = 0
    /\ tracer = 0
    /\ spans \in [Tracers -> PriorStores]
    /\ locals = NoLocals
    /\ base = 0
    /\ requests = <<>>
    /\ prev = <<>>
    /\ calls = 0
    /\ ret = "none"

(* ------------------------------ actions ------------------------------- *)

\* A caller invokes emit_thesis_spans(tracer) with some tracer t.
Call(t) ==
    /\ pc \in {0, Done}
    /\ calls < MaxCalls
    /\ pc' = 1
    /\ tracer' = t
    /\ base' = Len(spans[t])
    /\ locals' = NoLocals
    /\ prev' = requests
    /\ requests' = <<>>
    /\ calls' = calls + 1
    /\ ret' = "pending"
    /\ UNCHANGED spans

\* let <local k> = tracer.span_builder(name)
\*     .with_attributes(vec![KeyValue::new("brief", brief)]).start(tracer);
StartSpan(stmt, k, name, brief) ==
    /\ pc = stmt
    /\ LET builder == WithAttributes(SpanBuilder(name),
                                     <<KeyValue(BRIEF_KEY, brief)>>)
           store   == Start(spans[tracer], builder)
       IN  /\ spans' = [spans EXCEPT ![tracer] = store]
           /\ locals' = [locals EXCEPT ![k] = Len(store)]
           /\ requests' = Append(requests, Request("start", store[Len(store)]))
    /\ pc' = stmt + 1
    /\ UNCHANGED <<tracer, base, prev, calls, ret>>

\* <local k>.end();  The local is bound when the statement is reached: a
\* let binds it, and the compiler rejects a use of an unbound local.
EndSpan(stmt, k) ==
    /\ pc = stmt
    /\ locals[k] \in 1..Len(spans[tracer])
    /\ spans' = [spans EXCEPT ![tracer] = End(@, locals[k])]
    /\ requests' = Append(requests, Request("end", spans[tracer][locals[k]]))
    /\ pc' = stmt + 1
    /\ UNCHANGED <<tracer, locals, base, prev, calls, ret>>

\* Variant: the first span is not started when the tracer already holds an
\* open span of that name; the open one is bound to the local instead.
StartTelemetryAsSystemUnlessOpen ==
    /\ pc = 1
    /\ LET open == { i \in 1..Len(spans[tracer]) :
                       /\ spans[tracer][i].name = NAME_telemetry_as_system
                       /\ ~spans[tracer][i].ended }
       IN  IF open = {}
           THEN StartSpan(1, 1, NAME_telemetry_as_system,
                          BRIEF_telemetry_as_system)
           ELSE /\ pc' = 2
                /\ locals' = [locals EXCEPT ![1] = CHOOSE i \in open : TRUE]
                /\ UNCHANGED <<tracer, spans, base, requests, prev, calls,
                               ret>>

StartTelemetryAsSystem ==
    StartSpan(1, 1, NAME_telemetry_as_system, BRIEF_telemetry_as_system)

\* Variant: the first span's end() call is missing.
SkipEndTelemetryAsSystem ==
    /\ pc = 2
    /\ pc' = 3
    /\ UNCHANGED <<tracer, spans, locals, base, requests, prev, calls, ret>>

EndTelemetryAsSystem == EndSpan(2, 1)

StartSpanDrivesCode ==
    StartSpan(3, 2, NAME_span_drives_code, BRIEF_span_drives_code)

\* Variant: the fourth statement ends the first local once more.
EndTelemetryAsSystemAgain == EndSpan(4, 1)

EndSpanDrivesCode == EndSpan(4, 2)

\* Variant: the third block carries the fourth block's literals.
StartTraceToPromptEmergenceOutOfOrder ==
    StartSpan(5, 3, NAME_telemetry_communication_channel,
              BRIEF_telemetry_communication_channel)

StartTraceToPromptEmergence ==
    StartSpan(5, 3, NAME_trace_to_prompt_emergence,
              BRIEF_trace_to_prompt_emergence)

\* Variant: the third span's end() call is missing.
SkipEndTraceToPromptEmergence ==
    /\ pc = 6
    /\ pc' = 7
    /\ UNCHANGED <<tracer, spans, locals, base, requests, prev, calls, ret>>

EndTraceToPromptEmergence == EndSpan(6, 3)

StartTelemetryCommunicationChannel ==
    StartSpan(7, 4, NAME_telemetry_communication_channel,
              BRIEF_telemetry_communication_channel)

\* Variant: the eighth statement calls end() twice.
EndTelemetryCommunicationChannelTwice ==
    /\ pc = 8
    /\ locals[4] \in 1..Len(spans[tracer])
    /\ spans' = [spans EXCEPT ![tracer] = End(End(@, locals[4]), locals[4])]
    /\ requests' =
           LET r == Request("end", spans[tracer][locals[4]])
           IN  Append(Append(requests, r), r)
    /\ pc' = 9
    /\ UNCHANGED <<tracer, locals, base, prev, calls, ret>>

EndTelemetryCommunicationChannel == EndSpan(8, 4)

StartSystemModelsItself ==
    StartSpan(9, 5, NAME_system_models_itself, BRIEF_system_models_itself)

\* Variant: the tenth statement starts the fifth span again instead of
\* ending it.
StartSystemModelsItselfAgain ==
    StartSpan(10, 5, NAME_system_models_itself, BRIEF_system_models_itself)

EndSystemModelsItself == EndSpan(10, 5)

\* The closing brace: the five locals go out of scope, so no handle
\* survives the call, and the function returns (); it issues no request
\* and leaves the tracer's store as it is.
Return ==
    /\ pc = Brace
    /\ pc' = Done
    /\ locals' = NoLocals
    /\ ret' = "unit"
    /\ UNCHANGED <<tracer, spans, base, requests, prev, calls>>

Next ==
    \/ \E t \in Tracers : Call(t)
    \/ StartTelemetryAsSystem
    \/ EndTelemetryAsSystem
    \/ StartSpanDrivesCode
    \/ EndSpanDrivesCode
    \/ StartTraceToPromptEmergence
    \/ EndTraceToPromptEmergence
    \/ StartTelemetryCommunicationChannel
    \/ EndTelemetryCommunicationChannel
    \/ StartSystemModelsItself
    \/ EndSystemModelsItself
    \/ Return

Spec == Init /\ [][Next]_vars

\* The statements of the function body, the closing brace included.
Step ==
    \/ StartTelemetryAsSystem
    \/ EndTelemetryAsSystem
    \/ StartSpanDrivesCode
    \/ EndSpanDrivesCode
    \/ StartTraceToPromptEmergence
    \/ EndTraceToPromptEmergence
    \/ StartTelemetryCommunicationChannel
    \/ EndTelemetryCommunicationChannel
    \/ StartSystemModelsItself
    \/ EndSystemModelsItself
    \/ Return

\* The body is straight-line synchronous code and the tracer's operations
\* return: once entered, the function keeps executing its next statement.
\* Nothing obliges a caller to invoke it.
FairSpec == Spec /\ WF_vars(Step)

(* ---------------------------- properties ----------------------------- *)

\* The function has been entered at least once: tracer and base are those
\* of the latest invocation.
Entered == pc \in 1..Done

\* The store of the tracer the latest invocation was given.
Store == spans[tracer]

\* Handles of the spans the latest invocation has started.
Mine == (base + 1)..Len(Store)

\* Handles of the latest invocation's spans that are still open.
MineOpen == { i \in Mine : ~Store[i].ended }

\* Positions of the latest invocation's requests of one kind.
RequestsOf(action) ==
    { p \in 1..Len(requests) : requests[p].action = action }

\* C1: when emit_thesis_spans has returned, the invocation has started
\* exactly five spans: the tracer's store grew by five records and five
\* start requests were issued.
C1_ExactlyFiveSpans ==
    pc = Done =>
        /\ Len(Store) = base + 5
        /\ Cardinality(RequestsOf("start")) = 5

\* An invocation returned on a tracer that already held a span.
C1_Witness == pc = Done /\ base = 1 /\ Len(Store) = 6

\* The names as section 8 of the specification lists them.
SpecNames ==
    { "thesis.telemetry_as_system",
      "thesis.span_drives_code",
      "thesis.trace_to_prompt_emergence",
      "thesis.telemetry_communication_channel",
      "thesis.system_models_itself" }

\* The names as the source spells them.
SourceNames ==
    { "swarmsh.thesis.telemetry_as_system",
      "swarmsh.thesis.span_drives_code",
      "swarmsh.thesis.trace_to_prompt_emergence",
      "swarmsh.thesis.telemetry_communication_channel",
      "swarmsh.thesis.system_models_itself" }

\* C2 as stated: every span an invocation starts, and every request it
\* issues, carries a name of the set section 8 lists (no "swarmsh." prefix).
C2_NamesInSpecSet ==
    Entered =>
        /\ \A i \in Mine : Store[i].name \in SpecNames
        /\ \A p \in 1..Len(requests) : requests[p].name \in SpecNames

\* C2 amended: every span an invocation starts, and every request it
\* issues, carries one of the five names prefixed "swarmsh.thesis.".
C2_NamesInSourceSet ==
    Entered =>
        /\ \A i \in Mine : Store[i].name \in SourceNames
        /\ \A p \in 1..Len(requests) : requests[p].name \in SourceNames

\* An invocation has started all five of its spans.
C2_Witness ==
    /\ pc = Done
    /\ { Store[i].name : i \in Mine } = SourceNames

\* C3: when emit_thesis_spans has returned, none of the spans the
\* invocation started is still open.
C3_NoLeakedOpenSpans == pc = Done => MineOpen = {}

\* An invocation returned, all five of its spans ended, on a tracer that
\* holds an open span of somebody else.
C3_Witness ==
    /\ pc = Done
    /\ Cardinality(Mine) = 5
    /\ \A i \in Mine : Store[i].ended
    /\ \E i \in 1..base : ~Store[i].ended

\* The brief the claim pairs with each record.
BriefOf(name) ==
    CASE name = "swarmsh.thesis.telemetry_as_system" ->
             "Telemetry is the system, not an add-on."
      [] name = "swarmsh.thesis.span_drives_code" ->
             "Spans generate code & CLI."
      [] name = "swarmsh.thesis.trace_to_prompt_emergence" ->
             "Traces → LLM prompts (emergent)."
      [] name = "swarmsh.thesis.telemetry_communication_channel" ->
             "Spans are the agent messaging bus."
      [] name = "swarmsh.thesis.system_models_itself" ->
             "Trace graph is a live self-model."
      [] OTHER -> "no brief"

\* C4: every span an invocation starts carries exactly one attribute, keyed
\* "brief", whose value is the text paired with the span's name.
C4_OneBriefPerSpan ==
    Entered =>
        \A i \in Mine :
            /\ Len(Store[i].attributes) = 1
            /\ Store[i].attributes[1].key = "brief"
            /\ Store[i].attributes[1].value = BriefOf(Store[i].name)

\* The third span, whose brief holds the arrow, has been started.
C4_Witness ==
    /\ Entered
    /\ \E i \in Mine :
          /\ Store[i].name = "swarmsh.thesis.trace_to_prompt_emergence"
          /\ Store[i].attributes[1].value = "Traces → LLM prompts (emergent)."

\* C5: the names of the spans one invocation starts are pairwise distinct.
C5_DistinctNames ==
    Entered =>
        \A i, j \in Mine : i # j => Store[i].name # Store[j].name

\* An invocation returned with five spans of five names, on a tracer whose
\* earlier span bears one of those names.
C5_Witness ==
    /\ pc = Done
    /\ Cardinality({ Store[i].name : i \in Mine }) = 5
    /\ \E i \in 1..base : \E j \in Mine : Store[i].name = Store[j].name

\* C6: at every point of an invocation at most one of its spans is open, a
\* span is ended by the time the next one exists, and every start request
\* but the first directly follows an end request.
C6_NeverNested ==
    Entered =>
        /\ Cardinality(MineOpen) <= 1
        /\ \A i \in Mine : (i + 1) \in Mine => Store[i].ended
        /\ \A p \in 2..Len(requests) :
              requests[p].action = "start" => requests[p - 1].action = "end"

\* The second span is open and the first is ended.
C6_Witness ==
    /\ pc = 4
    /\ MineOpen = {base + 2}
    /\ Store[base + 1].ended

\* The requests of one invocation, in order: the kind and the name.
ProgramOrder ==
    << <<"start", "swarmsh.thesis.telemetry_as_system">>,
       <<"end", "swarmsh.thesis.telemetry_as_system">>,
       <<"start", "swarmsh.thesis.span_drives_code">>,
       <<"end", "swarmsh.thesis.span_drives_code">>,
       <<"start", "swarmsh.thesis.trace_to_prompt_emergence">>,
       <<"end", "swarmsh.thesis.trace_to_prompt_emergence">>,
       <<"start", "swarmsh.thesis.telemetry_communication_channel">>,
       <<"end", "swarmsh.thesis.telemetry_communication_channel">>,
       <<"start", "swarmsh.thesis.system_models_itself">>,
       <<"end", "swarmsh.thesis.system_models_itself">> >>

\* C7: the requests an invocation has issued are, at every point, the first
\* requests of start(1), end(1), ..., start(5), end(5) in program order, one
\* per statement executed, and all ten once the function has returned.
C7_ProgramOrder ==
    Entered =>
        /\ Len(requests) = (IF pc = Done THEN 10 ELSE pc - 1)
        /\ \A p \in 1..Len(requests) :
              <<requests[p].action, requests[p].name>> = ProgramOrder[p]

\* An invocation returned after all ten requests.
C7_Witness ==
    /\ pc = Done
    /\ Len(requests) = 10
    /\ requests[10].action = "end"
    /\ requests[10].name = "swarmsh.thesis.system_models_itself"

\* C8: an invocation has no failure path.  It is never outside the eleven
\* positions of its body, it returns nothing but (), it has issued exactly
\* ten requests (five starts, five ends) when it returns, and, the tracer's
\* operations returning, an invocation that was entered does return.
C8_NoFailurePath ==
    /\ [](pc \in 0..Done /\ ret \in {"none", "pending", "unit"})
    /\ [](pc = Done =>
            /\ ret = "unit"
            /\ Len(requests) = 10
            /\ Cardinality(RequestsOf("start")) = 5
            /\ Cardinality(RequestsOf("end")) = 5)
    /\ [](Entered /\ pc # Done => ENABLED Step)
    /\ ((pc = 1) ~> (pc = Done))

\* The second invocation of a behaviour returned ().
C8_Witness == pc = Done /\ ret = "unit" /\ calls = 2

\* C9: every span an invocation started has had end() called on it exactly
\* once when the function returns, and no step changes the record of a span
\* that is ended: its name, attributes, closed status and number of end()
\* calls stay as they are, in every tracer.
C9_EndedOnceThenUntouched ==
    /\ [](pc = Done => \A i \in Mine : Store[i].endCalls = 1)
    /\ [][\A t \in Tracers : \A i \in 1..Len(spans[t]) :
            spans[t][i].ended =>
                /\ i <= Len(spans'[t])
                /\ spans'[t][i] = spans[t][i]]_vars

\* An invocation is past its fourth statement: two of its spans are ended,
\* each by one end() call, and later statements have run since.
C9_Witness ==
    /\ pc = 8
    /\ Store[base + 1].endCalls = 1
    /\ Store[base + 2].endCalls = 1
    /\ Store[base + 1].ended

\* C10: an invocation issues the same requests as the invocation before it,
\* whichever tracers the two were given and whatever those tracers held:
\* at every point its requests are the first requests of the earlier
\* invocation, and all of them once it has returned.
C10_SameRequests ==
    (Entered /\ calls >= 2) =>
        /\ Len(requests) <= Len(prev)
        /\ \A p \in 1..Len(requests) : requests[p] = prev[p]
        /\ (pc = Done => requests = prev)

\* A second invocation returned on the tracer the first one used, which by
\* then held the first invocation's spans on top of an earlier one.
C10_Witness ==
    /\ pc = Done
    /\ calls = 2
    /\ base = 6
    /\ Len(prev) = 10

=============================================================================
